---------------------------- MODULE Spec2Model ----------------------------
(***************************************************************************)
(* Model of the micro-benchmark engine in src/benchmark.h: the single-call *)
(* timer (time) and its factories real_time and proc_time with their       *)
(* default hooks, the three bench entry points (single candidate, fixed    *)
(* list, runtime list) with the random schedule from gen_rd_seq, and the   *)
(* reducer helpers.  The candidates are the ones of                        *)
(* src/test/test_binding.cpp: the incrementing counter `mono` and the      *)
(* self-built timer over the doubling logical clock.                       *)
(*                                                                         *)
(* Spec is a whole bench call, SpecTime a single-candidate call of a timer *)
(* built with any hooks, and SpecRed the application of a reducer to       *)
(* arbitrary samples.                                                      *)
(***************************************************************************)
EXTENDS Integers, Sequences, FiniteSets, TLC

(***************************************************************************)
(* Bounds of the model.                                                    *)
(***************************************************************************)
\* largest round count passed to bench
MaxRounds == 10
\* largest number of candidates in a list
MaxFuncs == 3
\* largest rounds * candidates of a list-shaped call
MaxRuns == 5
\* largest template argument N of excl_avg
MaxExcl == 2
\* longest sample sequence handed directly to a reducer
MaxLen == 4
\* Width of the sample type T and of size_t.  The code runs with a 32-bit
\* int and a 64-bit size_t; TLC's integers are 32-bit, so both are modelled
\* narrower, size_t staying the wider of the two.
IntBits == 24
SizeBits == 29
\* Width of the count of a nanos sample (int64_t in the code) and of the
\* size_t it is divided by; both have the same width in the code.
NanoBits == 13

IntMod == 2 ^ IntBits
IntMax == 2 ^ (IntBits - 1) - 1
IntMin == 0 - 2 ^ (IntBits - 1)
SizeMod == 2 ^ SizeBits

\* conversion of a value to the sample type T (two's complement)
ToInt(x) ==
    LET m == x % IntMod IN IF m > IntMax THEN m - IntMod ELSE m

\* conversion of a value to size_t (usual arithmetic conversions)
ToSize(x) == x % SizeMod

\* a value wrapped to the signed, and to the unsigned, type of w bits
Wrap(x, w) ==
    LET m == x % (2 ^ w) IN IF m >= 2 ^ (w - 1) THEN m - 2 ^ w ELSE m

UWrap(x, w) == x % (2 ^ w)

Abs(x) == IF x < 0 THEN 0 - x ELSE x

\* whether x, and whether the square of d, is a value of the signed type of
\* w bits
Fits(x, w) == 0 - 2 ^ (w - 1) <= x /\ x <= 2 ^ (w - 1) - 1

SquareFits(d, w) == d = 0 \/ Abs(d) <= (2 ^ (w - 1) - 1) \div Abs(d)

\* a * b in the signed type of w bits when the product wraps around: the
\* low w bits of the product, from the halves of the operands
MulWrap(a, b, w) ==
    LET h == (w + 1) \div 2
        ua == UWrap(a, w)
        ub == UWrap(b, w)
        a0 == ua % (2 ^ h)
        a1 == ua \div (2 ^ h)
        b0 == ub % (2 ^ h)
        b1 == ub \div (2 ^ h)
        c1 == (a1 * b0) % (2 ^ (w - h))
        c2 == (a0 * b1) % (2 ^ (w - h))
        cross == (c1 + c2) % (2 ^ (w - h))
    IN Wrap(a0 * b0 + cross * (2 ^ h), w)

(***************************************************************************)
(* Reducer helpers (src/benchmark.h:271-357), on sequences 1..Len(vec).    *)
(***************************************************************************)
RECURSIVE MaxElement(_, _)
MaxElement(vec, k) ==
    IF k = 1 THEN vec[1]
    ELSE LET m == MaxElement(vec, k - 1) IN IF m < vec[k] THEN vec[k] ELSE m

RECURSIVE MinElement(_, _)
MinElement(vec, k) ==
    IF k = 1 THEN vec[1]
    ELSE LET m == MinElement(vec, k - 1) IN IF vec[k] < m THEN vec[k] ELSE m

\* max helper
Max(vec) == MaxElement(vec, Len(vec))

\* min helper
Min(vec) == MinElement(vec, Len(vec))

\* min_max helper
MinMax(vec) == <<MinElement(vec, Len(vec)), MaxElement(vec, Len(vec))>>

\* std::accumulate(vec.begin(), vec.end(), T{}) in the sample type
RECURSIVE Accumulate(_, _)
Accumulate(vec, k) ==
    IF k = 0 THEN 0 ELSE ToInt(Accumulate(vec, k - 1) + vec[k])

\* sum helper
Sum(vec) == Accumulate(vec, Len(vec))

\* avg helper: sum(vec) / vec.size() divides a T by a size_t, so the sum is
\* converted to size_t, divided, and the quotient converted back to T
Avg(vec) == ToInt(ToSize(Sum(vec)) \div Len(vec))

\* the arrangements of the elements of a sequence
Arrangements(s) ==
    { [i \in 1..Len(s) |-> s[p[i]]] : p \in Permutations(1..Len(s)) }

\* a sorted sequence with x inserted
Insert(s, x) ==
    LET k == Cardinality({ i \in 1..Len(s) : s[i] <= x })
    IN SubSeq(s, 1, k) \o <<x>> \o SubSeq(s, k + 1, Len(s))

\* the first k elements of vec in ascending order
RECURSIVE SortPrefix(_, _)
SortPrefix(vec, k) ==
    IF k = 0 THEN <<>> ELSE Insert(SortPrefix(vec, k - 1), vec[k])

SortedSeq(vec) == SortPrefix(vec, Len(vec))

\* std::nth_element(first, first + mid, last): the element at (0-based) mid is
\* the one a full sort would put there, nothing before it is greater and
\* nothing after it is less; the arrangement within the two parts is the
\* library's choice.  The arrangements with that property are the ones that
\* put the mid smallest samples first, in any order, and the rest last.
NthElement(vec, mid) ==
    LET s == SortedSeq(vec)
    IN { lo \o <<s[mid + 1]>> \o hi :
            lo \in Arrangements(SubSeq(s, 1, mid)),
            hi \in Arrangements(SubSeq(s, mid + 2, Len(s))) }

\* the middle index of median, as a variant taking the lower middle
MedianMidLower(n) == (n - 1) \div 2

\* median helper: mid = n / 2
MedianMid(n) == n \div 2

\* median helper, as a variant that drops the samples above the middle
MedianConsumes(vec) ==
    LET mid == MedianMid(Len(vec))
    IN { [out |-> t[mid + 1], vec |-> SubSeq(t, 1, mid + 1)] :
            t \in NthElement(vec, mid) }

\* median helper: the possible (result, reordered vec) pairs
Median(vec) ==
    LET mid == MedianMid(Len(vec))
    IN { [out |-> t[mid + 1], vec |-> t] : t \in NthElement(vec, mid) }

\* excl_avg helper: excl_vec(vec.begin() + N, vec.end() - N)
ExclVec(N, vec) == SubSeq(vec, N + 1, Len(vec) - N)

\* excl_avg helper: N * 2 >= vec.size(), the product taken in uint64_t
ExclFallsBack(N, vec) == ToSize(N * 2) >= Len(vec)

\* excl_avg helper: whether vec.begin() + N and vec.end() - N are outside the
\* vector (undefined behaviour), as they are when N * 2 wrapped around
ExclOutOfRange(N, vec) == ~ExclFallsBack(N, vec) /\ N * 2 > Len(vec)

\* excl_avg helper: the possible (result, vec) pairs
ExclAvg(N, vec) ==
    IF ExclFallsBack(N, vec) THEN Median(vec)
    ELSE { [out |-> Avg(ExclVec(N, vec)), vec |-> vec] }

\* full helper, as a variant that returns the samples in ascending order
FullSorted(vec) == SortedSeq(vec)

\* full helper
Full(vec) == vec

\* the double returned by nsd, sqrtl(_sum / vec.size()) / _avg, kept as its
\* three operands
NsdValue(sum_, size, avg_) == [sumsq |-> sum_, n |-> size, avg |-> avg_]

\* nsd helper: diff = val - _avg, in T
NsdDiff(val, avg_) == ToInt(val - avg_)

\* nsd helper: diff * diff, in T
NsdSquare(diff) == MulWrap(diff, diff, IntBits)

\* nsd helper: the std::accumulate of acc + diff * diff from T{}, in T
RECURSIVE NsdAccumulate(_, _, _)
NsdAccumulate(vec, avg_, k) ==
    IF k = 0 THEN 0
    ELSE ToInt(NsdAccumulate(vec, avg_, k - 1)
                   + NsdSquare(NsdDiff(vec[k], avg_)))

\* nsd helper: whether a subtraction, a multiplication or an addition of the
\* accumulation overflows T (undefined behaviour for a signed T)
NsdOverflows(vec) ==
    LET avg_ == Avg(vec)
    IN \E k \in 1..Len(vec) :
          \/ ~Fits(vec[k] - avg_, IntBits)
          \/ ~SquareFits(NsdDiff(vec[k], avg_), IntBits)
          \/ ~Fits(NsdAccumulate(vec, avg_, k - 1)
                       + NsdSquare(NsdDiff(vec[k], avg_)), IntBits)

\* nsd helper
Nsd(vec) ==
    LET avg_ == Avg(vec)
    IN NsdValue(NsdAccumulate(vec, avg_, Len(vec)), Len(vec), avg_)

\* avg_nsd helper
AvgNsd(vec) == <<Avg(vec), Nsd(vec)>>

\* conversion of a value to the count of nanos (int64_t) and to the size_t a
\* nanos is divided by
ToCount(x) == Wrap(x, NanoBits)

ToUCount(x) == UWrap(x, NanoBits)

\* sum helper on nanos: the counts are added in the count's type
RECURSIVE AccumulateNanos(_, _)
AccumulateNanos(vec, k) ==
    IF k = 0 THEN 0 ELSE ToCount(AccumulateNanos(vec, k - 1) + vec[k])

\* avg helper on nanos: sum(vec) / vec.size() is a duration over the common
\* type of the count and size_t, the unsigned one, converted back to nanos
AvgNanos(vec) == ToCount(ToUCount(AccumulateNanos(vec, Len(vec))) \div Len(vec))

\* nsd helper for nanos: diff = (int64_t)val.count() - _avg
NsdNanosDiff(val, avg_) == ToCount(val - avg_)

\* nsd helper for nanos: (double)(diff * diff), the product taken in int64_t
\* and then converted
NsdNanosSquare(diff) == MulWrap(diff, diff, NanoBits)

\* nsd helper for nanos: the std::accumulate of acc + (double)(diff * diff)
\* from 0.0L; the sum is a double and does not wrap
RECURSIVE NsdNanosAccumulate(_, _, _)
NsdNanosAccumulate(vec, avg_, k) ==
    IF k = 0 THEN 0
    ELSE NsdNanosAccumulate(vec, avg_, k - 1)
             + NsdNanosSquare(NsdNanosDiff(vec[k], avg_))

\* nsd helper for nanos: whether a subtraction or a multiplication overflows
\* int64_t (undefined behaviour)
NsdNanosOverflows(vec) ==
    LET avg_ == AvgNanos(vec)
    IN \E k \in 1..Len(vec) :
          \/ ~Fits(vec[k] - avg_, NanoBits)
          \/ ~SquareFits(NsdNanosDiff(vec[k], avg_), NanoBits)

\* nsd helper for nanos
NsdNanos(vec) ==
    LET avg_ == AvgNanos(vec)
    IN NsdValue(NsdNanosAccumulate(vec, avg_, Len(vec)), Len(vec), avg_)

(***************************************************************************)
(* A reducer applied by bench as d_meth(run_results[i]).  The outcomes are *)
(* records: the value returned, the sample sequence as the call leaves it, *)
(* and whether the call crashed.  On an empty sequence max, min and        *)
(* min_max dereference vec.end(), avg divides by a zero size and median    *)
(* reads vec[0]: undefined behaviour, modelled as a crash or a garbage     *)
(* value.  nsd and avg_nsd call avg, and overflow a signed type on samples *)
(* far from their mean: the product wraps around, or the build traps.      *)
(* "nsd_nanos" is nsd applied to samples of type nanos.  excl_avg with an   *)
(* N whose double wraps around takes iterators outside the vector: a       *)
(* crash, a garbage value, or (the offsets wrapping too) avg of the whole   *)
(* vector.                                                                 *)
(***************************************************************************)
DMeths == {"max", "min", "min_max", "sum", "avg", "median", "excl_avg", "full",
           "nsd", "avg_nsd", "nsd_nanos"}

Garbage == {IntMin, 0, IntMax}

Returned(o, v) == [out |-> o, vec |-> v, crash |-> FALSE]

Undefined(v, garbage) ==
    { [out |-> g, vec |-> v, crash |-> c] : g \in garbage, c \in BOOLEAN }

\* a call that returns o, or traps if it overflows
Overflowing(overflows, o, v) ==
    {Returned(o, v)}
        \cup IF overflows THEN {[out |-> o, vec |-> v, crash |-> TRUE]} ELSE {}

ReduceOutcomes(d, N, vec) ==
    CASE d = "max" ->
            IF vec = <<>> THEN Undefined(vec, Garbage)
            ELSE {Returned(Max(vec), vec)}
      [] d = "min" ->
            IF vec = <<>> THEN Undefined(vec, Garbage)
            ELSE {Returned(Min(vec), vec)}
      [] d = "min_max" ->
            IF vec = <<>> THEN Undefined(vec, Garbage \X Garbage)
            ELSE {Returned(MinMax(vec), vec)}
      [] d = "sum" -> {Returned(Sum(vec), vec)}
      [] d = "avg" ->
            IF vec = <<>> THEN Undefined(vec, Garbage)
            ELSE {Returned(Avg(vec), vec)}
      [] d = "median" ->
            IF vec = <<>> THEN Undefined(vec, Garbage)
            ELSE { Returned(o.out, o.vec) : o \in Median(vec) }
      [] d = "excl_avg" ->
            IF vec = <<>> THEN Undefined(vec, Garbage)
            ELSE IF ExclOutOfRange(N, vec)
                 THEN Undefined(vec, Garbage \cup {Avg(vec)})
            ELSE { Returned(o.out, o.vec) : o \in ExclAvg(N, vec) }
      [] d = "full" -> {Returned(Full(vec), vec)}
      [] d = "nsd" ->
            IF vec = <<>> THEN Undefined(vec, Garbage)
            ELSE Overflowing(NsdOverflows(vec), Nsd(vec), vec)
      [] d = "avg_nsd" ->
            IF vec = <<>> THEN Undefined(vec, Garbage)
            ELSE Overflowing(NsdOverflows(vec), AvgNsd(vec), vec)
      [] d = "nsd_nanos" ->
            IF vec = <<>> THEN Undefined(vec, Garbage)
            ELSE Overflowing(NsdNanosOverflows(vec), NsdNanos(vec), vec)

(***************************************************************************)
(* The state of one bench call.                                            *)
(***************************************************************************)
VARIABLES
    shape,        \* which overload of bench is called
    rounds,       \* argument rounds
    func_sz,      \* number of candidates (Func_Sz / funcs.size(); 1 for single)
    kind,         \* the candidates: "mono", "timer" or "sampler"
    d_meth,       \* argument d_meth
    excl_n,       \* template argument N of excl_avg (0 for other reducers)
    hooks,        \* the pre_func and post_func arguments the timer was built with
    pc,           \* position in bench
    seq,          \* the schedule returned by gen_rd_seq
    idx,          \* number of loop iterations completed
    cur,          \* func_idx and run_idx of the iteration under way
    ret,          \* value returned by the candidate just called
    run_results,  \* run_results[func_idx], a sequence of rounds samples
    results,      \* the results assigned so far, in order
    red_i,        \* loop variable of the reduction loop
    tpc,          \* position in time()
    start,        \* local start of time()
    end,          \* local end of time()
    mono_i,       \* the int i captured by mono
    clock_i,      \* the int i captured by the logical clock
    hook_log,     \* what the caller's hooks have done: their runs, in order
    ev,           \* history: what the timer call under way has invoked
    order,        \* history: the (func_idx, run_idx) slots in execution order
    rets,         \* history: the samples in the order the candidates returned them
    readings,     \* history: the clock readings of this bench call
    fault,        \* history: 0, or the executed slot during which a fault was raised
    red_log       \* history: the reducer applications, in order

inputs == <<shape, rounds, func_sz, kind, d_meth, excl_n, hooks>>
loopv == <<seq, idx, cur, ret, run_results>>
redv == <<results, red_i, red_log>>
timerv == <<tpc, start, end, ev, clock_i, readings, hook_log>>
vars == <<shape, rounds, func_sz, kind, d_meth, excl_n, hooks, pc, seq, idx, cur,
          ret, run_results, results, red_i, tpc, start, end, mono_i, clock_i,
          hook_log, ev, order, rets, readings, fault, red_log>>

Shapes == {"single", "fixed", "runtime"}

\* std::vector<Func_R>(rounds): rounds value-initialised samples
ZeroVec(n) == [k \in 1..n |-> 0]

\* the state before bench has done anything
Entry ==
    /\ pc = "entry"
    /\ seq = <<>> /\ idx = 0 /\ cur = [func_idx |-> 0, run_idx |-> 0] /\ ret = 0
    /\ run_results = <<>> /\ results = <<>> /\ red_i = 0
    /\ tpc = "idle" /\ start = 0 /\ end = 0
    /\ mono_i = 0 /\ clock_i = 1 /\ hook_log = <<>>
    /\ ev = <<>> /\ order = <<>> /\ rets = <<>> /\ readings = <<>>
    /\ fault = 0 /\ red_log = <<>>

\* the template arguments N of excl_avg: any uint64_t, here the small ones
\* and the least one whose double is not a uint64_t
ExclArgs == 0..MaxExcl \cup {SizeMod \div 2}

\* A call of bench with its arguments: rounds is any uint64_t; the runtime
\* list holds any number of candidates; the fixed list holds at least two,
\* since a call with one candidate resolves to the single-candidate overload
\* (as the test's bench(10, max, mono) == 10 shows).  The candidates return
\* int, so d_meth is one of the reducers on int samples.  The self-built
\* timer of the test is bound with two hooks of the caller.
Init ==
    /\ shape \in Shapes
    /\ rounds \in 0..MaxRounds
    /\ func_sz \in CASE shape = "single" -> {1}
                     [] shape = "fixed" -> 2..MaxFuncs
                     [] shape = "runtime" -> 0..MaxFuncs
    /\ shape # "single" => rounds * func_sz <= MaxRuns
    /\ kind \in {"mono", "timer"}
    /\ hooks = IF kind = "timer" THEN [pre |-> "hook", post |-> "hook"]
               ELSE [pre |-> "omitted", post |-> "omitted"]
    /\ d_meth \in DMeths \ {"nsd_nanos"}
    /\ excl_n \in IF d_meth = "excl_avg" THEN ExclArgs ELSE {0}
    /\ Entry

(***************************************************************************)
(* gen_rd_seq (src/benchmark.h:177-182).                                   *)
(***************************************************************************)
\* std::iota(seq.begin(), seq.end(), 0)
Iota(n) == [k \in 1..n |-> k - 1]

Swap(s, a, b) == [s EXCEPT ![a] = s[b], ![b] = s[a]]

\* std::shuffle: each position in turn is swapped with a position drawn from
\* the ones up to it; the draws are the random engine's
RECURSIVE ShuffleFrom(_, _)
ShuffleFrom(s, k) ==
    IF k > Len(s) THEN {s}
    ELSE UNION { ShuffleFrom(Swap(s, k, j), k + 1) : j \in 1..k }

\* gen_rd_seq, as a variant that leaves out the shuffle
GenRdSeqNoShuffle(n) == {Iota(n)}

\* the sequences std::shuffle can make of 0 .. n-1, for each length of a
\* schedule in the model
Shuffled == [n \in 0..MaxRuns |-> ShuffleFrom(Iota(n), 2)]

\* gen_rd_seq(n): the sequences it can return
GenRdSeq(n) == Shuffled[n]

(***************************************************************************)
(* The candidates and the timer (src/benchmark.h:129-141,                  *)
(* src/test/test_binding.cpp:28-35, 54-55).                                *)
(***************************************************************************)
\* the candidate is invoked for slot (f, r)
Invoke(f, r) ==
    /\ cur' = [func_idx |-> f, run_idx |-> r]
    /\ order' = Append(order, [func_idx |-> f, run_idx |-> r])
    /\ pc' = "call"
    /\ tpc' = IF kind = "timer" THEN "pre" ELSE "idle"
    /\ ev' = <<>>

\* mono: return ++i
CallMono ==
    /\ pc = "call" /\ kind = "mono"
    /\ mono_i' = mono_i + 1
    /\ ret' = mono_i + 1
    /\ rets' = Append(rets, mono_i + 1)
    /\ pc' = "store"
    /\ UNCHANGED <<inputs, seq, idx, cur, run_results, redv, timerv, order, fault>>

\* the logical clock: i = i * 2; return i
Now(i) == i * 2

\* template_fn: en - st
Diff(st, en) == en - st

\* the default of the pre_func and post_func parameters of real_time and
\* proc_time, as a variant whose default is a hook that does something
DefaultHookWorks == "hook"

\* the default of the pre_func and post_func parameters of real_time and
\* proc_time: empty_fn
DefaultHook == "empty_fn"

\* what a caller passes for a hook: nothing, a callable that does nothing, or
\* a hook that does something
HookArgs == {"omitted", "noop", "hook"}

\* real_time / proc_time: the hooks bound into the timer
RealTime(pre_arg, post_arg) ==
    [pre_func |-> IF pre_arg = "omitted" THEN DefaultHook ELSE pre_arg,
     post_func |-> IF post_arg = "omitted" THEN DefaultHook ELSE post_arg]

\* a hook is run: empty_fn and a callable that does nothing leave everything
\* as it is, a hook that does something is recorded
CallHook(fn, which) ==
    IF fn \in {"empty_fn", "noop"} THEN hook_log ELSE Append(hook_log, which)

\* time(): pre_func()
TimePre(pre_func) ==
    /\ pc = "call" /\ tpc = "pre"
    /\ ev' = Append(ev, "pre_func")
    /\ hook_log' = CallHook(pre_func, "pre_func")
    /\ tpc' = "start"
    /\ UNCHANGED <<inputs, pc, loopv, redv, start, end, mono_i, clock_i, order,
                   rets, readings, fault>>

\* time(): auto start = now()
TimeStart ==
    /\ pc = "call" /\ tpc = "start"
    /\ clock_i' = Now(clock_i)
    /\ start' = Now(clock_i)
    /\ readings' = Append(readings, Now(clock_i))
    /\ ev' = Append(ev, "now")
    /\ tpc' = "func"
    /\ UNCHANGED <<inputs, pc, loopv, redv, end, mono_i, hook_log, order, rets,
                   fault>>

\* time(): func()
TimeFunc ==
    /\ pc = "call" /\ tpc = "func"
    /\ ev' = Append(ev, "func")
    /\ tpc' = "end"
    /\ UNCHANGED <<inputs, pc, loopv, redv, start, end, mono_i, clock_i, hook_log,
                   order, rets, readings, fault>>

\* time(): auto end = now()
TimeEnd ==
    /\ pc = "call" /\ tpc = "end"
    /\ clock_i' = Now(clock_i)
    /\ end' = Now(clock_i)
    /\ readings' = Append(readings, Now(clock_i))
    /\ ev' = Append(ev, "now")
    /\ tpc' = "post"
    /\ UNCHANGED <<inputs, pc, loopv, redv, start, mono_i, hook_log, order, rets,
                   fault>>

\* time(): post_func()
TimePost(post_func) ==
    /\ pc = "call" /\ tpc = "post"
    /\ ev' = Append(ev, "post_func")
    /\ hook_log' = CallHook(post_func, "post_func")
    /\ tpc' = "diff"
    /\ UNCHANGED <<inputs, pc, loopv, redv, start, end, mono_i, clock_i, order,
                   rets, readings, fault>>

\* the value of time(), as a variant that mixes up the two readings
TimeResultSwapped(st, en) == Diff(en, st)

\* the value of time(): diff(start, end)
TimeResult(st, en) == Diff(st, en)

\* time(): return diff(start, end)
TimeReturn ==
    /\ pc = "call" /\ tpc = "diff"
    /\ ev' = Append(ev, "diff")
    /\ ret' = TimeResult(start, end)
    /\ rets' = Append(rets, TimeResult(start, end))
    /\ tpc' = "idle"
    /\ pc' = "store"
    /\ UNCHANGED <<inputs, seq, idx, cur, run_results, redv, start, end, mono_i,
                   clock_i, hook_log, order, readings, fault>>

\* an exception leaving the candidate, as a variant in which the caller
\* swallows it, takes a default sample and goes on
RaiseSwallowed ==
    /\ fault' = Len(order)
    /\ ret' = 0
    /\ rets' = Append(rets, 0)
    /\ tpc' = "idle"
    /\ pc' = "store"
    /\ UNCHANGED <<inputs, seq, idx, cur, run_results, redv, start, end, mono_i,
                   clock_i, hook_log, ev, order, readings>>

\* an exception leaving the candidate, as a variant in which time() runs
\* post_func on the way out
RaiseAfterTeardown ==
    /\ fault' = Len(order)
    /\ pc' = "faulted"
    /\ ev' = Append(ev, "post_func")
    /\ hook_log' = CallHook(RealTime(hooks.pre, hooks.post).post_func, "post_func")
    /\ UNCHANGED <<inputs, loopv, redv, tpc, start, end, clock_i, readings,
                   mono_i, order, rets>>

\* an exception leaves the candidate: neither time() nor bench has a handler,
\* so it leaves bench too
Raise ==
    /\ fault' = Len(order)
    /\ pc' = "faulted"
    /\ UNCHANGED <<inputs, loopv, redv, timerv, mono_i, order, rets>>

\* whatever the call under way is about to invoke (the candidate routine, a
\* hook, the clock or diff, as tpc says) throws
Fault ==
    /\ pc = "call"
    /\ Raise

(***************************************************************************)
(* One application of the reducer: d_meth(v) with outcome o, assigned to   *)
(* the next result unless the call crashed.                                *)
(***************************************************************************)
\* as a variant that puts each new result in front of the earlier ones
ReducedInFront(f, o) ==
    /\ run_results' = [run_results EXCEPT ![f] = o.vec]
    /\ red_log' = Append(red_log, [func |-> f, given |-> run_results[f],
                                   out |-> o.out, crash |-> o.crash])
    /\ results' = IF o.crash THEN results ELSE <<o.out>> \o results

Reduced(f, o) ==
    /\ run_results' = [run_results EXCEPT ![f] = o.vec]
    /\ red_log' = Append(red_log, [func |-> f, given |-> run_results[f],
                                   out |-> o.out, crash |-> o.crash])
    /\ results' = IF o.crash THEN results ELSE Append(results, o.out)

(***************************************************************************)
(* bench, single candidate (src/benchmark.h:260-269).                      *)
(***************************************************************************)
\* std::vector<Func_R> run_results(rounds)
SingleAlloc ==
    /\ pc = "entry" /\ shape = "single"
    /\ run_results' = [f \in {0} |-> ZeroVec(rounds)]
    /\ pc' = "run"
    /\ UNCHANGED <<inputs, seq, idx, cur, ret, redv, timerv, mono_i, order, rets,
                   fault>>

\* for (auto i = 0UL; i < rounds; ++i) ... func()
SingleLoop ==
    /\ pc = "run" /\ shape = "single"
    /\ idx < rounds
    /\ Invoke(0, idx)
    /\ UNCHANGED <<inputs, seq, idx, ret, run_results, redv, start, end, mono_i,
                   clock_i, hook_log, rets, readings, fault>>

\* run_results[i] = (the value returned); ++i
SingleStore ==
    /\ pc = "store" /\ shape = "single"
    /\ run_results' = [run_results EXCEPT ![0][idx + 1] = ret]
    /\ idx' = idx + 1
    /\ pc' = "run"
    /\ UNCHANGED <<inputs, seq, cur, ret, redv, timerv, mono_i, order, rets, fault>>

\* return d_meth(run_results)
SingleReduce ==
    /\ pc = "run" /\ shape = "single"
    /\ idx >= rounds
    /\ \E o \in ReduceOutcomes(d_meth, excl_n, run_results[0]) :
          /\ Reduced(0, o)
          /\ pc' = IF o.crash THEN "crashed" ELSE "done"
    /\ red_i' = red_i + 1
    /\ UNCHANGED <<inputs, seq, idx, cur, ret, timerv, mono_i, order, rets, fault>>

(***************************************************************************)
(* bench, fixed list (src/benchmark.h:193-220).  The actions take the      *)
(* shape they belong to as a parameter.                                    *)
(***************************************************************************)
\* func_idx and run_idx, as a variant that divides by the round count
FixedSlotByRounds(i, Func_Sz) ==
    [func_idx |-> i \div rounds, run_idx |-> i % rounds]

\* func_idx = i % Func_Sz, run_idx = i / Func_Sz
FixedSlot(i, Func_Sz) == [func_idx |-> i % Func_Sz, run_idx |-> i \div Func_Sz]

\* total_runs, as a variant that forgets the candidate count
FixedTotalRunsOneEach(r, Func_Sz) == r

\* total_runs = rounds * Func_Sz
FixedTotalRuns(r, Func_Sz) == r * Func_Sz

\* run_results(Func_Sz, vector(rounds)); seq = gen_rd_seq(total_runs)
FixedAlloc(sh) ==
    /\ pc = "entry" /\ shape = sh
    /\ run_results' = [f \in 0..(func_sz - 1) |-> ZeroVec(rounds)]
    /\ seq' \in GenRdSeq(FixedTotalRuns(rounds, func_sz))
    /\ pc' = "run"
    /\ UNCHANGED <<inputs, idx, cur, ret, redv, timerv, mono_i, order, rets, fault>>

\* for (const auto i : seq) ... funcs[func_idx]()
FixedLoop(sh) ==
    /\ pc = "run" /\ shape = sh
    /\ idx < Len(seq)
    /\ LET slot == FixedSlot(seq[idx + 1], func_sz)
       IN Invoke(slot.func_idx, slot.run_idx)
    /\ UNCHANGED <<inputs, seq, idx, ret, run_results, redv, start, end, mono_i,
                   clock_i, hook_log, rets, readings, fault>>

\* run_results[func_idx][run_idx] = (the value returned)
FixedStore(sh) ==
    /\ pc = "store" /\ shape = sh
    /\ run_results' = [run_results EXCEPT ![cur.func_idx][cur.run_idx + 1] = ret]
    /\ idx' = idx + 1
    /\ pc' = "run"
    /\ UNCHANGED <<inputs, seq, cur, ret, redv, timerv, mono_i, order, rets, fault>>

\* for (auto i = 0UL; i < Func_Sz; ++i) results[i] = d_meth(run_results[i])
FixedReduce(sh) ==
    /\ pc = "run" /\ shape = sh
    /\ idx >= Len(seq)
    /\ red_i < func_sz
    /\ \E o \in ReduceOutcomes(d_meth, excl_n, run_results[red_i]) :
          /\ Reduced(red_i, o)
          /\ pc' = IF o.crash THEN "crashed" ELSE "run"
    /\ red_i' = red_i + 1
    /\ UNCHANGED <<inputs, seq, idx, cur, ret, timerv, mono_i, order, rets, fault>>

\* return results
FixedReturn(sh) ==
    /\ pc = "run" /\ shape = sh
    /\ idx >= Len(seq)
    /\ red_i >= func_sz
    /\ pc' = "done"
    /\ UNCHANGED <<inputs, loopv, redv, timerv, mono_i, order, rets, fault>>

FixedNext(sh) ==
    \/ FixedAlloc(sh)
    \/ FixedLoop(sh)
    \/ FixedStore(sh)
    \/ FixedReduce(sh)
    \/ FixedReturn(sh)

(***************************************************************************)
(* bench, runtime list (src/benchmark.h:230-250).                          *)
(***************************************************************************)
\* func_idx = i % func_sz, run_idx = i / func_sz, as a variant that divides
\* by the round count
RuntimeSlotByRounds(i, n) == [func_idx |-> i \div rounds, run_idx |-> i % rounds]

\* func_idx = i % func_sz, run_idx = i / func_sz
RuntimeSlot(i, n) == [func_idx |-> i % n, run_idx |-> i \div n]

\* total_runs = rounds * func_sz
RuntimeTotalRuns(r, n) == r * n

\* func_sz = funcs.size(); results(func_sz); run_results(func_sz,
\* vector(rounds)); seq = gen_rd_seq(total_runs)
RuntimeAlloc(sh) ==
    /\ pc = "entry" /\ shape = sh
    /\ run_results' = [f \in 0..(func_sz - 1) |-> ZeroVec(rounds)]
    /\ seq' \in GenRdSeq(RuntimeTotalRuns(rounds, func_sz))
    /\ pc' = "run"
    /\ UNCHANGED <<inputs, idx, cur, ret, redv, timerv, mono_i, order, rets, fault>>

\* for (auto i : seq) ... funcs[func_idx]()
RuntimeLoop(sh) ==
    /\ pc = "run" /\ shape = sh
    /\ idx < Len(seq)
    /\ LET slot == RuntimeSlot(seq[idx + 1], func_sz)
       IN Invoke(slot.func_idx, slot.run_idx)
    /\ UNCHANGED <<inputs, seq, idx, ret, run_results, redv, start, end, mono_i,
                   clock_i, hook_log, rets, readings, fault>>

\* run_results[func_idx][run_idx] = (the value returned)
RuntimeStore(sh) ==
    /\ pc = "store" /\ shape = sh
    /\ run_results' = [run_results EXCEPT ![cur.func_idx][cur.run_idx + 1] = ret]
    /\ idx' = idx + 1
    /\ pc' = "run"
    /\ UNCHANGED <<inputs, seq, cur, ret, redv, timerv, mono_i, order, rets, fault>>

\* for (auto i = 0UL; i < func_sz; ++i) results[i] = d_meth(run_results[i])
RuntimeReduce(sh) ==
    /\ pc = "run" /\ shape = sh
    /\ idx >= Len(seq)
    /\ red_i < func_sz
    /\ \E o \in ReduceOutcomes(d_meth, excl_n, run_results[red_i]) :
          /\ Reduced(red_i, o)
          /\ pc' = IF o.crash THEN "crashed" ELSE "run"
    /\ red_i' = red_i + 1
    /\ UNCHANGED <<inputs, seq, idx, cur, ret, timerv, mono_i, order, rets, fault>>

\* return results
RuntimeReturn(sh) ==
    /\ pc = "run" /\ shape = sh
    /\ idx >= Len(seq)
    /\ red_i >= func_sz
    /\ pc' = "done"
    /\ UNCHANGED <<inputs, loopv, redv, timerv, mono_i, order, rets, fault>>

RuntimeNext(sh) ==
    \/ RuntimeAlloc(sh)
    \/ RuntimeLoop(sh)
    \/ RuntimeStore(sh)
    \/ RuntimeReduce(sh)
    \/ RuntimeReturn(sh)

SingleNext ==
    \/ SingleAlloc
    \/ SingleLoop
    \/ SingleStore
    \/ SingleReduce

\* the steps of a timer with the hooks of timer bound into it
TimeNextOf(timer) ==
    \/ TimePre(timer.pre_func)
    \/ TimeStart
    \/ TimeFunc
    \/ TimeEnd
    \/ TimePost(timer.post_func)
    \/ TimeReturn

TimeNext == TimeNextOf(RealTime(hooks.pre, hooks.post))

Next ==
    \/ SingleNext
    \/ FixedNext("fixed")
    \/ RuntimeNext("runtime")
    \/ CallMono
    \/ TimeNext
    \/ Fault

Spec == Init /\ [][Next]_vars

(***************************************************************************)
(* The reducers on arbitrary samples: a single-candidate bench call whose  *)
(* candidate has returned the samples vec, at the point where the loop is  *)
(* over and d_meth is about to be applied.  The samples are all short      *)
(* sequences over Samples, and the ten samples 1..10 of the test.          *)
(***************************************************************************)
Samples == {IntMin, -3, -1, 0, 2, 5, IntMax}

\* the rounds of the test's bench calls
TestRounds == 10

\* the samples mono returns in TestRounds rounds
TestSamples == [k \in 1..TestRounds |-> k]

SampleSeqs ==
    UNION { [1..n -> Samples] : n \in 1..MaxLen } \cup {TestSamples}

\* samples of type nanos, as their counts
NanoSamples == {0 - 2 ^ (NanoBits - 1), -100, -1, 0, 60, 100, 2 ^ (NanoBits - 1) - 1}

NanoSampleSeqs ==
    UNION { [1..n -> NanoSamples] : n \in 1..MaxLen } \cup {TestSamples}

InitRed ==
    /\ shape = "single" /\ func_sz = 1 /\ kind = "sampler"
    /\ hooks = [pre |-> "omitted", post |-> "omitted"]
    /\ d_meth \in DMeths
    /\ excl_n \in IF d_meth = "excl_avg" THEN ExclArgs ELSE {0}
    /\ \E vec \in IF d_meth = "nsd_nanos" THEN NanoSampleSeqs ELSE SampleSeqs :
          /\ rounds = Len(vec)
          /\ run_results = [f \in {0} |-> vec]
          /\ rets = vec
          /\ idx = Len(vec)
          /\ order = [k \in 1..Len(vec) |-> [func_idx |-> 0, run_idx |-> k - 1]]
          /\ cur = [func_idx |-> 0, run_idx |-> Len(vec) - 1]
          /\ ret = vec[Len(vec)]
    /\ pc = "run"
    /\ seq = <<>> /\ results = <<>> /\ red_i = 0
    /\ tpc = "idle" /\ start = 0 /\ end = 0
    /\ mono_i = 0 /\ clock_i = 1 /\ hook_log = <<>>
    /\ ev = <<>> /\ readings = <<>>
    /\ fault = 0 /\ red_log = <<>>

NextRed == SingleReduce

SpecRed == InitRed /\ [][NextRed]_vars

(***************************************************************************)
(* The timers of real_time and proc_time in a single-candidate bench call, *)
(* built with any combination of omitted, empty and working hooks; the     *)
(* clock is the logical clock.                                             *)
(***************************************************************************)
InitTime ==
    /\ shape = "single" /\ func_sz = 1 /\ kind = "timer"
    /\ rounds \in 0..MaxRounds
    /\ hooks \in [pre : HookArgs, post : HookArgs]
    /\ d_meth \in DMeths \ {"nsd_nanos"}
    /\ excl_n \in IF d_meth = "excl_avg" THEN ExclArgs ELSE {0}
    /\ Entry

NextTime ==
    \/ SingleNext
    \/ TimeNext
    \/ Fault

SpecTime == InitTime /\ [][NextTime]_vars

(***************************************************************************)
(* Properties.                                                             *)
(***************************************************************************)
ListShape == shape \in {"fixed", "runtime"}

\* how often candidate f has been invoked
Calls(f) == Cardinality({ k \in 1..Len(order) : order[k].func_idx = f })

\* C1: a bench call that returns, with rounds >= 1 and at least one
\* candidate, has invoked every candidate exactly rounds times, and so has
\* made func_sz * rounds invocations in all, each of which returned a sample;
\* in each of the three shapes.
C1_EachCandidateRunsRoundsTimes ==
    (pc = "done" /\ rounds >= 1 /\ func_sz >= 1) =>
        /\ \A f \in 0..(func_sz - 1) : Calls(f) = rounds
        /\ Len(order) = func_sz * rounds
        /\ Len(rets) = func_sz * rounds
        /\ \A k \in 1..Len(order) : order[k].func_idx \in 0..(func_sz - 1)

\* a fixed-list call of three candidates and one round has returned
C1_Witness ==
    /\ pc = "done" /\ shape = "fixed" /\ func_sz = 3 /\ rounds = 1
    /\ Len(order) = 3

\* what one call of time() invokes, in order
TimerEvents == <<"pre_func", "now", "func", "now", "post_func", "diff">>

\* C2: a call of the timer invokes pre_func, now, func, now, post_func and
\* diff in this order, each once and the clock twice (what it has invoked so
\* far is always the beginning of that sequence, and all of it when the call
\* returns); start is the first reading and end the second, and the value
\* returned is diff(start, end).  In the single-candidate bench the k-th
\* sample (as handed to the reducer) is diff of the clock readings 2k-1 and 2k.
C2_TimerSequence ==
    kind = "timer" =>
        /\ Len(ev) <= Len(TimerEvents)
        /\ ev = SubSeq(TimerEvents, 1, Len(ev))
        /\ pc = "call" =>
              /\ Len(ev) < Len(TimerEvents)
              /\ Len(readings) = 2 * Len(rets)
                    + Cardinality({ k \in 1..Len(ev) : ev[k] = "now" })
        /\ pc = "store" =>
              /\ ev = TimerEvents
              /\ Len(readings) = 2 * Len(rets)
              /\ start = readings[Len(readings) - 1]
              /\ end = readings[Len(readings)]
              /\ ret = Diff(start, end)
              /\ rets[Len(rets)] = ret
        /\ (shape = "single" /\ red_log = <<>>) =>
              \A k \in 1..idx :
                  run_results[0][k] = Diff(readings[2 * k - 1], readings[2 * k])

\* the sum the test expects of ten rounds of the self-built timer
TestTimerSum == 699050

\* the test's call bench(10, sum, self_build_bind_fn) has returned 699050
C2_Witness ==
    /\ pc = "done" /\ shape = "single" /\ kind = "timer" /\ d_meth = "sum"
    /\ rounds = TestRounds
    /\ results = <<TestTimerSum>>

\* the (candidate, round) slots of a call
SlotSet(n, r) == [func_idx : 0..(n - 1), run_idx : 0..(r - 1)]

\* the orderings of all slots: every slot once
SlotOrders(n, r) ==
    { o \in [1..(n * r) -> SlotSet(n, r)] :
        \A a, b \in 1..(n * r) : a # b => o[a] # o[b] }

\* the slots a schedule stands for, in a fixed-list and in a runtime-list call
FixedSchedule(s) == [k \in 1..Len(s) |-> FixedSlot(s[k], func_sz)]
RuntimeSchedule(s) == [k \in 1..Len(s) |-> RuntimeSlot(s[k], func_sz)]

RECURSIVE ExactSum(_, _)
ExactSum(v, k) == IF k = 0 THEN 0 ELSE ExactSum(v, k - 1) + v[k]

TruncDiv(a, n) == IF a >= 0 THEN a \div n ELSE 0 - ((0 - a) \div n)

\* the applications of the reducer that returned
ReducerReturns == { k \in 1..Len(red_log) : ~red_log[k].crash }

\* C4: for more than 2N samples, in any order, excl_avg<N> returns the
\* average (avg) of the samples left when the N lowest and the N highest are
\* discarded: of positions N..R-N-1 of the samples in ascending order.
C4_ExclAvgTrimsByValue ==
    d_meth = "excl_avg" =>
        \A k \in ReducerReturns :
            LET given == red_log[k].given
            IN Len(given) > 2 * excl_n =>
                  red_log[k].out =
                      Avg(SubSeq(SortedSeq(given), excl_n + 1, Len(given) - excl_n))

\* the median the test expects of the samples 1..10
TestMedian == 6

\* C5: median of a non-empty sample sequence, in any order, returns the
\* element at 0-based position floor(R/2) of the samples in ascending order:
\* at most floor(R/2) samples are less than it, and more than floor(R/2) are
\* less than or equal to it.  For the samples 1..10 it is 6.
C5_MedianIsMiddleOfSorted ==
    d_meth = "median" =>
        \A k \in ReducerReturns :
            LET given == red_log[k].given
                out == red_log[k].out
                mid == Len(given) \div 2
            IN /\ out = SortedSeq(given)[mid + 1]
               /\ \E i \in 1..Len(given) : given[i] = out
               /\ Cardinality({ i \in 1..Len(given) : given[i] < out }) <= mid
               /\ Cardinality({ i \in 1..Len(given) : given[i] <= out }) > mid
               /\ given = TestSamples => out = TestMedian

\* median of the unordered samples 5, -1, 2, 0 has returned 2
C5_Witness ==
    /\ d_meth = "median" /\ pc = "done"
    /\ red_log[1].given = <<5, -1, 2, 0>>
    /\ red_log[1].out = 2
    /\ results = <<2>>

\* C6: full returns a sequence equal, element by element, to the one it was
\* given, and leaves that one as it is; so bench with full returns each
\* candidate's samples in round order: sample r of candidate f is the value
\* returned by the invocation for slot (f, r), and for the single counter
\* candidate the result is 1, 2, ..., rounds.
C6_FullReturnsSamplesInRoundOrder ==
    d_meth = "full" =>
        /\ \A k \in 1..Len(red_log) :
              /\ ~red_log[k].crash
              /\ red_log[k].out = red_log[k].given
              /\ run_results[red_log[k].func] = red_log[k].given
        /\ pc = "done" =>
              /\ Len(results) = func_sz
              /\ \A f \in 0..(func_sz - 1) :
                    /\ results[f + 1] = run_results[f]
                    /\ Len(results[f + 1]) = rounds
              /\ \A k \in 1..Len(order) :
                    results[order[k].func_idx + 1][order[k].run_idx + 1] = rets[k]
        /\ (pc = "done" /\ shape = "single") =>
              /\ results = <<rets>>
              /\ kind = "mono" => results = <<[k \in 1..rounds |-> k]>>

\* the test's call bench(10, full, mono) has returned 1, 2, ..., 10
C6_Witness ==
    /\ pc = "done" /\ shape = "single" /\ kind = "mono" /\ d_meth = "full"
    /\ rounds = TestRounds
    /\ results = <<TestSamples>>

\* C7: for a non-empty sample sequence, min <= avg <= max, where avg is the
\* sum divided by the number of samples, truncated.
C7_AvgBetweenMinAndMax ==
    d_meth = "avg" =>
        \A k \in ReducerReturns :
            LET given == red_log[k].given
            IN /\ Min(given) <= red_log[k].out
               /\ red_log[k].out <= Max(given)
               /\ red_log[k].out = TruncDiv(ExactSum(given, Len(given)), Len(given))

\* once a fault was raised during the fault-th executed slot, bench has been
\* left: that slot was the last one begun and returned no sample, no reducer
\* was applied and no result assigned
FaultAborted ==
    fault # 0 =>
        /\ pc = "faulted"
        /\ Len(order) = fault
        /\ Len(rets) = fault - 1
        /\ idx = fault - 1
        /\ red_log = <<>>
        /\ results = <<>>

\* C8: a fault raised by the candidate routine, a hook or the clock during
\* the k-th executed slot leaves bench at once: nothing more is invoked (no
\* step at all is taken after it), no reducer is applied and no result is
\* returned.
C8_FaultPropagates ==
    /\ []FaultAborted
    /\ [][fault = 0 /\ pc # "faulted"]_vars

\* func has thrown inside the timer, in the second executed slot of a call
\* of two candidates
C8_Witness ==
    /\ pc = "faulted" /\ fault = 2 /\ func_sz = 2
    /\ kind = "timer" /\ tpc = "func"
    /\ ev = <<"pre_func", "now">>

\* C9: a call with rounds = 0 or with no candidates is rejected before any
\* measurement: no candidate is invoked, no reducer is applied (to an empty
\* sample sequence) and bench does not return a result.
C9_EmptyCallRejected ==
    (rounds = 0 \/ func_sz = 0) =>
        /\ order = <<>>
        /\ red_log = <<>>
        /\ pc # "done"

\* the single-candidate shape's way of running: invocation k is round k-1,
\* and the samples stored so far are the values returned, in that order
RunsInRoundOrder ==
    /\ \A k \in 1..Len(order) : order[k] = [func_idx |-> 0, run_idx |-> k - 1]
    /\ red_log = <<>> => \A k \in 1..idx : run_results[0][k] = rets[k]

\* the list shapes' way of running: the invocations follow the schedule, and
\* the sample of the k-th invocation is stored at the slot the schedule gave
\* it
RunsInScheduleOrder ==
    /\ pc # "entry" => order = SubSeq(RuntimeSchedule(seq), 1, Len(order))
    /\ red_log = <<>> =>
          \A k \in 1..idx :
              run_results[order[k].func_idx][order[k].run_idx + 1] = rets[k]

\* C10 as claimed: the three shapes are equivalent, so that with one
\* candidate every shape runs and stores as the single-candidate shape does.
C10_ShapesEquivalent ==
    func_sz = 1 => RunsInRoundOrder

\* C10 as amended: the fixed-list and the runtime-list shape take the same
\* steps from the same state (the same schedules, slots, stores, reductions
\* and return).  The single-candidate shape draws no schedule and always runs
\* round k-1 as its k-th invocation; a list of that one candidate runs the
\* rounds in the order of its schedule, of which the round order is one, and
\* stores each sample at the round the schedule gave it.
C10_ListShapesEquivalent ==
    /\ [][/\ FixedNext("fixed") => RuntimeNext("fixed")
          /\ RuntimeNext("runtime") => FixedNext("runtime")]_vars
    /\ [](shape = "single" => RunsInRoundOrder)
    /\ [](ListShape => RunsInScheduleOrder)
    /\ []((shape = "runtime" /\ func_sz = 1 /\ pc = "entry") =>
              Iota(rounds) \in GenRdSeq(RuntimeTotalRuns(rounds, func_sz)))

\* a runtime list of the one counter candidate has returned, with full, the
\* samples 3, 1, 2: round 1 ran first and round 0 last
C10_Witness ==
    /\ pc = "done" /\ shape = "runtime" /\ func_sz = 1
    /\ kind = "mono" /\ d_meth = "full" /\ rounds = 3
    /\ results = << <<3, 1, 2>> >>

\* the sum of the squares of the first k deviations from m, in the integers
RECURSIVE ExactSquares(_, _, _)
ExactSquares(v, m, k) ==
    IF k = 0 THEN 0 ELSE ExactSquares(v, m, k - 1) + (v[k] - m) * (v[k] - m)

\* C11: nsd of nanos samples squares the difference between each sample and
\* the mean without wrapping around, whatever representable counts the
\* sample and the mean have: the call returns, and the sum under its square
\* root is the sum of the exact squares (count - mean)^2.
C11_NanosSquareDoesNotWrap ==
    d_meth = "nsd_nanos" =>
        \A k \in 1..Len(red_log) :
            LET given == red_log[k].given
                mean == AvgNanos(given)
            IN /\ ~red_log[k].crash
               /\ red_log[k].out.avg = mean
               /\ red_log[k].out.sumsq = ExactSquares(given, mean, Len(given))

\* the thousandths in the value of nsd the test expects of the samples 1..10
TestNsdMilli == 583

\* the value sqrt(sumsq / n) / avg of an nsd result with a positive mean, in
\* thousandths, rounded down
NsdMilli(v) ==
    CHOOSE r \in 0..999 :
        /\ r * r * v.n * v.avg * v.avg <= v.sumsq * 1000000
        /\ v.sumsq * 1000000 < (r + 1) * (r + 1) * v.n * v.avg * v.avg

\* C12: nsd of integral samples returns sqrt((sum of (x - m)^2) / R) / m,
\* where m is the mean truncated to an integer, trunc(sum / R), and the
\* squares and their sum are the exact ones; avg_nsd returns the pair of avg
\* (that m) and that nsd.  For the samples 1..10: m = 5, the sum of squares
\* is 85 and the value is 0.583...
C12_NsdAroundTruncatedMean ==
    d_meth \in {"nsd", "avg_nsd"} =>
        \A k \in 1..Len(red_log) :
            LET given == red_log[k].given
                n == Len(given)
                m == TruncDiv(ExactSum(given, n), n)
            IN /\ ~red_log[k].crash
               /\ LET dev == IF d_meth = "nsd" THEN red_log[k].out
                             ELSE red_log[k].out[2]
                  IN /\ dev.avg = m
                     /\ dev.n = n
                     /\ \A i \in 1..n : SquareFits(given[i] - m, IntBits)
                     /\ dev.sumsq = ExactSquares(given, m, n)
                     /\ given = TestSamples =>
                           /\ dev = NsdValue(85, TestRounds, 5)
                           /\ NsdMilli(dev) = TestNsdMilli
               /\ d_meth = "avg_nsd" => red_log[k].out[1] = m

\* C13: for a sample sequence of length R >= 1 and an N with 2N >= R,
\* excl_avg<N> returns, and returns exactly the value median returns for the
\* same sequence.
C13_ExclAvgFallsBackToMedian ==
    d_meth = "excl_avg" =>
        \A k \in 1..Len(red_log) :
            LET given == red_log[k].given
            IN (Len(given) >= 1 /\ 2 * excl_n >= Len(given)) =>
                  /\ ~red_log[k].crash
                  /\ {red_log[k].out} = { o.out : o \in Median(given) }

\* a timer built without hooks, and one built with two callables that do
\* nothing
HooksOmitted == [pre |-> "omitted", post |-> "omitted"]
HooksEmpty == [pre |-> "noop", post |-> "noop"]

\* the sample of round k of a single-candidate call of the timer over the
\* logical clock: the readings are 2^(2k-1) and 2^(2k)
ClockSample(k) == 2 ^ (2 * k) - 2 ^ (2 * k - 1)

\* C14: a timer built with empty hooks and one built with the hooks omitted
\* behave alike: from the same state each takes exactly the steps the other
\* takes (the same candidate and clock events, readings and samples), no
\* hook does anything, and the samples handed to the reducer are the ones
\* the candidate and the clock alone determine.
C14_EmptyHooksAsOmitted ==
    /\ [][hooks = HooksOmitted =>
            (TimeNext => TimeNextOf(RealTime("noop", "noop")))]_vars
    /\ [][hooks = HooksEmpty =>
            (TimeNext => TimeNextOf(RealTime("omitted", "omitted")))]_vars
    /\ [](hooks \in {HooksOmitted, HooksEmpty} =>
            /\ hook_log = <<>>
            /\ ev = SubSeq(TimerEvents, 1, Len(ev))
            /\ red_log = <<>> =>
                  \A k \in 1..idx : run_results[0][k] = ClockSample(k))

\* a timer built with empty hooks has run twice, called both hooks each time
\* and returned the samples 2 and 8
C14_Witness ==
    /\ hooks = HooksEmpty /\ pc = "done" /\ rounds = 2 /\ d_meth = "full"
    /\ ev = TimerEvents /\ hook_log = <<>>
    /\ results = << <<2, 8>> >>

\* C15: in a list-shaped call of N candidates and R rounds the schedule
\* holds every index of 0..N*R-1 exactly once; the invocation for index i is
\* candidate i mod N, and its sample is stored at cell [i mod N][i div N] and
\* nowhere else; nothing else writes a cell before the reduction, so when the
\* loop is over every cell has been written exactly once, none is left
\* unset, and every candidate's sample sequence has length exactly R.
C15_EachCellWrittenOnce ==
    /\ []((ListShape /\ pc # "entry") =>
            /\ Len(seq) = func_sz * rounds
            /\ { seq[k] : k \in 1..Len(seq) } = 0..(func_sz * rounds - 1)
            /\ DOMAIN run_results = 0..(func_sz - 1)
            /\ \A f \in 0..(func_sz - 1) : Len(run_results[f]) = rounds
            /\ \A k \in 1..Len(order) :
                  order[k] = [func_idx |-> seq[k] % func_sz,
                              run_idx |-> seq[k] \div func_sz]
            /\ red_log = <<>> =>
                  \A k \in 1..idx :
                      run_results[seq[k] % func_sz][seq[k] \div func_sz + 1]
                          = rets[k]
            /\ (idx = Len(seq) /\ red_log = <<>>) =>
                  \A f \in 0..(func_sz - 1), r \in 0..(rounds - 1) :
                      \E k \in 1..Len(seq) :
                          /\ seq[k] = r * func_sz + f
                          /\ run_results[f][r + 1] = rets[k])
    /\ [][(ListShape /\ pc = "store") =>
             LET i == seq[idx + 1]
             IN /\ run_results' =
                      [run_results EXCEPT ![i % func_sz][i \div func_sz + 1] = ret]
                /\ idx' = idx + 1]_vars
    /\ [][(ListShape /\ pc \notin {"entry", "store"} /\ red_log' = <<>>) =>
             run_results' = run_results]_vars

\* a fixed-list call of two counter candidates and two rounds has run the
\* indices 2, 1, 3, 0 and returned, with full, the samples stored at their
\* cells
C15_Witness ==
    /\ pc = "done" /\ shape = "fixed" /\ func_sz = 2 /\ rounds = 2
    /\ kind = "mono" /\ d_meth = "full"
    /\ seq = <<2, 1, 3, 0>>
    /\ results = << <<4, 1>>, <<2, 3>> >>

\* the samples of candidate f in round order, once all invocations are over:
\* sample r is the value returned by the invocation for slot (f, r)
OwnSamples(f) ==
    [r \in 1..rounds |->
        rets[CHOOSE k \in 1..Len(order) :
                 order[k] = [func_idx |-> f, run_idx |-> r - 1]]]

\* C16: the reducer is applied only when all N*R invocations have returned;
\* the applications are one per candidate, in the order 0, 1, ..., each to
\* that candidate's own samples; result i is what the i-th application
\* returned (for the reducers that do not reorder: one of d_meth's outcomes
\* on those samples); and a call that returns has applied it exactly N times.
C16_ReducedAfterAllRunsInOrder ==
    /\ red_log # <<>> =>
          /\ Len(order) = func_sz * rounds
          /\ Len(rets) = func_sz * rounds
          /\ idx = func_sz * rounds
          /\ pc \notin {"entry", "call", "store", "faulted"}
    /\ Len(red_log) <= func_sz
    /\ red_i = Len(red_log)
    /\ \A k \in 1..Len(red_log) :
          /\ red_log[k].func = k - 1
          /\ red_log[k].given = OwnSamples(k - 1)
          /\ d_meth \notin {"median", "excl_avg"} =>
                \E o \in ReduceOutcomes(d_meth, excl_n, red_log[k].given) :
                    o.out = red_log[k].out /\ o.crash = red_log[k].crash
          /\ red_log[k].crash => k = Len(red_log) /\ pc = "crashed"
          /\ ~red_log[k].crash =>
                (Len(results) >= k /\ results[k] = red_log[k].out)
    /\ Len(results) <= Len(red_log)
    /\ pc = "done" =>
          /\ Len(red_log) = func_sz
          /\ Len(results) = func_sz

\* a runtime-list call of three counter candidates and one round has run
\* them in the order 2, 0, 1 and then reduced them in the order 0, 1, 2
C16_Witness ==
    /\ pc = "done" /\ shape = "runtime" /\ func_sz = 3 /\ rounds = 1
    /\ kind = "mono" /\ d_meth = "sum"
    /\ seq = <<2, 0, 1>>
    /\ Len(red_log) = 3
    /\ results = <<2, 3, 1>>

\* C17: a reducer leaves in the sequence it is given the samples it found
\* there: max, min, min_max, sum, avg, nsd, avg_nsd, full, and excl_avg<N>
\* when 2N < R, leave it unchanged element by element; median, and excl_avg
\* when 2N >= R, at most reorder it.  The samples in ascending order are the
\* same before and after every application.
C17_ReducersKeepTheSamples ==
    \A k \in 1..Len(red_log) :
        LET given == red_log[k].given
            after == run_results[red_log[k].func]
        IN /\ Len(after) = Len(given)
           /\ SortedSeq(after) = SortedSeq(given)
           /\ d_meth \notin {"median", "excl_avg"} => after = given
           /\ (d_meth = "excl_avg" /\ 2 * excl_n < Len(given)) => after = given

\* median has been applied to the samples 5, 2, -1 and has left them in the
\* order -1, 2, 5
C17_Witness ==
    /\ d_meth = "median" /\ pc = "done"
    /\ red_log[1].given = <<5, 2, -1>>
    /\ run_results[0] = <<-1, 2, 5>>

\* C18: when func raises a fault inside a call of the timer, that call has
\* run pre_func and taken the start reading and nothing else: the end
\* reading is not taken, post_func is not run (a working pre_func has run
\* once more than a working post_func) and diff is not computed.  When
\* pre_func raises, the call has invoked nothing: neither the clock nor func
\* nor post_func.  No step follows the fault.
C18_FaultSkipsTheRestOfTheCall ==
    /\ []((kind = "timer" /\ pc = "faulted" /\ tpc = "func") =>
            /\ ev = <<"pre_func", "now">>
            /\ Len(readings) = 2 * Len(rets) + 1
            /\ start = readings[Len(readings)]
            /\ hooks = [pre |-> "hook", post |-> "hook"] =>
                  /\ Len(hook_log) = 2 * Len(rets) + 1
                  /\ hook_log[Len(hook_log)] = "pre_func")
    /\ []((kind = "timer" /\ pc = "faulted" /\ tpc = "pre") =>
            /\ ev = <<>>
            /\ Len(readings) = 2 * Len(rets)
            /\ hooks = [pre |-> "hook", post |-> "hook"] =>
                  Len(hook_log) = 2 * Len(rets))
    /\ [][pc # "faulted"]_vars

\* func has raised in the second round of a timer with working hooks:
\* pre_func has run twice and post_func once
C18_Witness ==
    /\ kind = "timer" /\ pc = "faulted" /\ tpc = "func" /\ fault = 2
    /\ hooks = [pre |-> "hook", post |-> "hook"]
    /\ hook_log = <<"pre_func", "post_func", "pre_func">>
    /\ ev = <<"pre_func", "now">>
    /\ Len(readings) = 3

=============================================================================
